---- MODULE Spec2Model ----
(***************************************************************************)
(* The rule-based resume parser (src/resume_parser.py) and the upload     *)
(* handler that calls it (src/main.py, src/file_processor.py).            *)
(*                                                                         *)
(* A text is a sequence of characters; a character is a one-character     *)
(* string.  The en dash U+2013 of the date patterns is written "EN-DASH". *)
(* Python's None is the value None below.                                  *)
(***************************************************************************)
EXTENDS Integers, Sequences, FiniteSets, TLC

VARIABLES
    tech_skills,          \* ResumeParser.tech_skills, shared by every call
    education_keywords,   \* ResumeParser.education_keywords, shared by every call
    hash_seed,            \* per call: the string-hash seed of the process it runs in
    text,                 \* per call: the argument of parse_resume
    pc,                   \* per call: position in parse_resume
    idx,                  \* per call: index of the running for loop
    pat,                  \* per call: index of the inner loop over experience_patterns
    contact_info,         \* per call: local of extract_contact_info
    found_skills,         \* per call: local of extract_skills
    skills,               \* per call: value returned by extract_skills
    sentences,            \* per call: value of sent_tokenize(text)
    experience,           \* per call: list built by extract_experience
    education,            \* per call: list built by extract_education
    total_years,          \* per call: accumulator of calculate_experience_years
    parsed_data,          \* per call: value returned by parse_resume
    up_pc,                \* upload_resume: position in the handler
    up_file,              \* upload_resume: the uploaded file (filename, content)
    up_text,              \* upload_resume: text returned by FileProcessor.process_file
    up_exc,               \* upload_resume: exception in flight inside the try block
    up_response,          \* upload_resume: the HTTP response of the request
    parser_calls,         \* number of parse_resume calls made by upload_resume
    db,                   \* rows of the resumes table
    requests              \* number of upload requests started

vars == <<tech_skills, education_keywords, hash_seed, text, pc, idx, pat,
          contact_info, found_skills, skills, sentences, experience, education,
          total_years, parsed_data, up_pc, up_file, up_text, up_exc,
          up_response, parser_calls, db, requests>>

parse_vars == <<tech_skills, education_keywords, hash_seed, text, pc, idx, pat,
                contact_info, found_skills, skills, sentences, experience,
                education, total_years, parsed_data>>

upload_vars == <<up_pc, up_file, up_text, up_exc, up_response, parser_calls,
                 db, requests>>

None == <<"<None>">>

(***************************************************************************)
(* Characters and the str methods the parser uses.                         *)
(***************************************************************************)
Digits == {"0", "1", "2", "3", "4", "5", "6", "7", "8", "9"}

DigitVal ==
    [c \in Digits |->
        CASE c = "0" -> 0 [] c = "1" -> 1 [] c = "2" -> 2 [] c = "3" -> 3
          [] c = "4" -> 4 [] c = "5" -> 5 [] c = "6" -> 6 [] c = "7" -> 7
          [] c = "8" -> 8 [] c = "9" -> 9]

UpperLetters == <<"A","B","C","D","E","F","G","H","I","J","K","L","M","N","O","P","Q","R","S","T","U","V","W","X","Y","Z">>

LowerLetters == <<"a","b","c","d","e","f","g","h","i","j","k","l","m","n","o","p","q","r","s","t","u","v","w","x","y","z">>

UpperSet == {UpperLetters[k] : k \in 1..26}

LowerSet == {LowerLetters[k] : k \in 1..26}

Whitespace == {" ", "\t", "\n"}

IsDigit(c) == c \in Digits

IsSpace(c) == c \in Whitespace

\* str.lower() on one character
LowerChar(c) ==
    IF c \in UpperSet
    THEN LowerLetters[CHOOSE k \in 1..26 : UpperLetters[k] = c]
    ELSE c

\* str.lower()
Lower(s) == [k \in 1..Len(s) |-> LowerChar(s[k])]

\* the element of a one-element set.  A value that is used more than once is
\* bound as the element of a one-element set, The({e(x) : x \in {v}}), so
\* that it is computed once, as an assignment to a local does.
The(S) == CHOOSE x \in S : TRUE

\* sub in s
Contains(s, sub) ==
    \E t \in {s} : \E u \in {sub} :
        \E k \in 0..(Len(t) - Len(u)) : SubSeq(t, k + 1, k + Len(u)) = u

\* str.strip()
Strip(s) ==
    IF \A k \in 1..Len(s) : IsSpace(s[k]) THEN <<>>
    ELSE SubSeq(s,
                CHOOSE a \in 1..Len(s) :
                    ~IsSpace(s[a]) /\ \A m \in 1..(a - 1) : IsSpace(s[m]),
                CHOOSE b \in 1..Len(s) :
                    ~IsSpace(s[b]) /\ \A m \in (b + 1)..Len(s) : IsSpace(s[m]))

\* the elements of a finite set of integers in increasing order
Sorted(S) ==
    The({[r \in 1..Cardinality(T) |->
             CHOOSE k \in T : Cardinality({m \in T : m < k}) = r - 1]
         : T \in {S}})

\* str.split(sep) for a one-character separator: the pieces between the
\* separators, empty pieces included
Split(s, sep) ==
    The({[r \in 1..(Len(cuts) - 1) |-> SubSeq(s, cuts[r] + 1, cuts[r + 1] - 1)]
         : cuts \in {<<0>> \o Sorted({k \in 1..Len(s) : s[k] = sep})
                          \o <<Len(s) + 1>>}})

\* the last position of the run of non-whitespace that starts at position a
WordEnd(s, a) ==
    CHOOSE e \in a..Len(s) :
        /\ \A k \in a..e : ~IsSpace(s[k])
        /\ (e = Len(s) \/ IsSpace(s[e + 1]))

\* str.split() with no argument: the maximal runs of non-whitespace
SplitWs(s) ==
    The({[r \in 1..Len(starts) |-> SubSeq(s, starts[r], WordEnd(s, starts[r]))]
         : starts \in {Sorted({k \in 1..Len(s) :
                                  ~IsSpace(s[k]) /\ (k = 1 \/ IsSpace(s[k - 1]))})}})

RECURSIVE ToInt(_)
\* int(s) for a string of decimal digits
ToInt(s) ==
    IF s = <<>> THEN 0
    ELSE The({10 * ToInt(front) + DigitVal[s[Len(s)]]
              : front \in {SubSeq(s, 1, Len(s) - 1)}})

\* str.isdigit()
IsDigitStr(s) == s # <<>> /\ \A k \in 1..Len(s) : IsDigit(s[k])

RECURSIVE Concat(_)
\* the concatenation of a sequence of texts
Concat(ss) == IF ss = <<>> THEN <<>> ELSE Head(ss) \o Concat(Tail(ss))

RECURSIVE Join(_, _)
\* sep.join(ss)
Join(sep, ss) ==
    IF ss = <<>> THEN <<>>
    ELSE IF Len(ss) = 1 THEN ss[1]
    ELSE ss[1] \o sep \o Join(sep, Tail(ss))

(***************************************************************************)
(* Regular expressions, as re.search / re.findall evaluate them.           *)
(***************************************************************************)
DigitsAt(s, i, n) == i + n - 1 <= Len(s) /\ \A k \in i..(i + n - 1) : IsDigit(s[k])

CharAt(s, i, c) == i >= 1 /\ i <= Len(s) /\ s[i] = c

InAt(s, i, cs) == i >= 1 /\ i <= Len(s) /\ s[i] \in cs

\* a literal word under re.IGNORECASE
WordAt(s, i, w) ==
    i + Len(w) - 1 <= Len(s) /\ Lower(SubSeq(s, i, i + Len(w) - 1)) = w

\* the position after a greedy run of characters of cs started at i
SkipIn(s, i, cs) ==
    CHOOSE j \in i..(Len(s) + 1) :
        /\ \A k \in i..(j - 1) : s[k] \in cs
        /\ (j > Len(s) \/ s[j] \notin cs)

\* the position after \s* started at i
SkipWs(s, i) == SkipIn(s, i, Whitespace)

NoMatch == [ok |-> FALSE]

Dashes == {"-", "EN-DASH"}

Present == <<"p","r","e","s","e","n","t">>

Current == <<"c","u","r","r","e","n","t">>

\* the end marker alternatives |present|current of both date patterns
OpenEndAt(s, k) ==
    IF WordAt(s, k, Present) THEN k + Len(Present)
    ELSE IF WordAt(s, k, Current) THEN k + Len(Current)
    ELSE 0

\* (\d{4})\s*[-–]\s*(\d{4}|present|current) tried at position i
YearRangeAt(s, i) ==
    IF ~DigitsAt(s, i, 4) THEN NoMatch
    ELSE LET j == SkipWs(s, i + 4)
         IN  IF ~InAt(s, j, Dashes) THEN NoMatch
             ELSE LET k == SkipWs(s, j + 1)
                      e == IF DigitsAt(s, k, 4) THEN k + 4 ELSE OpenEndAt(s, k)
                  IN  IF e = 0 THEN NoMatch
                      ELSE [ok |-> TRUE, g1 |-> SubSeq(s, i, i + 3),
                            g2 |-> SubSeq(s, k, e - 1), end |-> e]

\* \d{1,2}/\d{4} tried at position i: the position after it, or 0
MonthYearAt(s, i) ==
    IF DigitsAt(s, i, 2) /\ CharAt(s, i + 2, "/") /\ DigitsAt(s, i + 3, 4) THEN i + 7
    ELSE IF DigitsAt(s, i, 1) /\ CharAt(s, i + 1, "/") /\ DigitsAt(s, i + 2, 4) THEN i + 6
    ELSE 0

\* (\d{1,2}/\d{4})\s*[-–]\s*(\d{1,2}/\d{4}|present|current) tried at position i
MonthRangeAt(s, i) ==
    LET a == MonthYearAt(s, i)
    IN  IF a = 0 THEN NoMatch
        ELSE LET j == SkipWs(s, a)
             IN  IF ~InAt(s, j, Dashes) THEN NoMatch
                 ELSE LET k == SkipWs(s, j + 1)
                          m == MonthYearAt(s, k)
                          e == IF m # 0 THEN m ELSE OpenEndAt(s, k)
                      IN  IF e = 0 THEN NoMatch
                          ELSE [ok |-> TRUE, g1 |-> SubSeq(s, i, a - 1),
                                g2 |-> SubSeq(s, k, e - 1), end |-> e]

\* the two date-range patterns of extract_experience, in list order
experience_patterns == <<"year_range", "month_range">>

PatternAt(pattern, s, i) ==
    IF pattern = "year_range" THEN YearRangeAt(s, i) ELSE MonthRangeAt(s, i)

\* the first position from i on at which the pattern matches
FirstMatchAt(pattern, s, i) ==
    CHOOSE k \in i..Len(s) :
        /\ PatternAt(pattern, s, k).ok
        /\ \A n \in i..(k - 1) : ~PatternAt(pattern, s, n).ok

RECURSIVE FindAllFrom(_, _, _)
\* the scan resumes behind each match; a position with no match is passed over
FindAllFrom(pattern, s, i) ==
    IF \A k \in i..Len(s) : ~PatternAt(pattern, s, k).ok THEN <<>>
    ELSE The({The({<<m>> \o FindAllFrom(pattern, s, m.end)
                   : m \in {PatternAt(pattern, s, k)}})
              : k \in {FirstMatchAt(pattern, s, i)}})

\* re.findall(pattern, s, re.IGNORECASE): the non-overlapping matches, left to right
FindAll(pattern, s) == FindAllFrom(pattern, s, 1)

\* the first position from i on at which four digits start
FirstYearAt(s, i) ==
    CHOOSE k \in i..Len(s) :
        DigitsAt(s, k, 4) /\ \A n \in i..(k - 1) : ~DigitsAt(s, n, 4)

RECURSIVE FindYearsFrom(_, _)
FindYearsFrom(s, i) ==
    IF \A k \in i..Len(s) : ~DigitsAt(s, k, 4) THEN <<>>
    ELSE The({<<SubSeq(s, k, k + 3)>> \o FindYearsFrom(s, k + 4)
              : k \in {FirstYearAt(s, i)}})

\* re.findall(r'\d{4}', period)
FindYears(period) == The({FindYearsFrom(s, 1) : s \in {period}})

WordChars == UpperSet \cup LowerSet \cup Digits \cup {"_"}

\* \b between positions i - 1 and i
BoundaryAt(s, i) == InAt(s, i - 1, WordChars) # InAt(s, i, WordChars)

EmailLocalChars == UpperSet \cup LowerSet \cup Digits \cup {".", "_", "%", "+", "-"}

EmailDomainChars == UpperSet \cup LowerSet \cup Digits \cup {".", "-"}

\* [A-Z|a-z]: the bar is a member of the class
EmailTldChars == UpperSet \cup LowerSet \cup {"|"}

\* \.[A-Z|a-z]{2,}\b started at the dot at position d: the position after the
\* longest ending that stops at a word boundary, or 0
EmailTldEnd(s, d) ==
    IF \A e \in (d + 3)..SkipIn(s, d + 1, EmailTldChars) : ~BoundaryAt(s, e) THEN 0
    ELSE CHOOSE e \in (d + 3)..SkipIn(s, d + 1, EmailTldChars) :
             /\ BoundaryAt(s, e)
             /\ \A f \in (e + 1)..SkipIn(s, d + 1, EmailTldChars) : ~BoundaryAt(s, f)

\* the dots at which [A-Za-z0-9.-]+ started behind the "@" at position a can
\* stop so that the rest of the pattern matches
EmailDots(s, a) ==
    {d \in (a + 2)..(SkipIn(s, a + 1, EmailDomainChars) - 1) :
        s[d] = "." /\ EmailTldEnd(s, d) # 0}

\* the rest of the email pattern behind the local part that ends before
\* position a: the "@", then the last dot that works, then the longest ending
EmailRestAt(s, a) ==
    IF ~CharAt(s, a, "@") THEN 0
    ELSE The({IF dots = {} THEN 0
              ELSE EmailTldEnd(s, CHOOSE d \in dots : \A x \in dots : x <= d)
              : dots \in {EmailDots(s, a)}})

\* the email pattern tried at position i: the position after the match, or 0
EmailAt(s, i) ==
    IF ~(BoundaryAt(s, i) /\ InAt(s, i, EmailLocalChars)) THEN 0
    ELSE The({EmailRestAt(s, a) : a \in {SkipIn(s, i, EmailLocalChars)}})

\* [-.\s]
PhoneSeparators == {"-", "."} \cup Whitespace

\* whether \(?\d{3}\)?[-.\s]?\d{3}[-.\s]?\d{4} started at position j ends before
\* position e: each optional character is taken when it is there
PhoneBodyFits(s, j, e) ==
    \E a \in {IF CharAt(s, j, "(") THEN j + 1 ELSE j} :
        /\ DigitsAt(s, a, 3)
        /\ \E b \in {IF CharAt(s, a + 3, ")") THEN a + 4 ELSE a + 3} :
               \E c \in {IF InAt(s, b, PhoneSeparators) THEN b + 1 ELSE b} :
                   /\ DigitsAt(s, c, 3)
                   /\ \E d \in {IF InAt(s, c + 3, PhoneSeparators)
                                THEN c + 4 ELSE c + 3} :
                          DigitsAt(s, d, 4) /\ e = d + 4

\* \(?\d{3}\)?[-.\s]?\d{3}[-.\s]?\d{4} tried at position j: the position after it, or 0
PhoneBodyAt(s, j) ==
    IF \E e \in (j + 10)..(j + 14) : PhoneBodyFits(s, j, e)
    THEN CHOOSE e \in (j + 10)..(j + 14) : PhoneBodyFits(s, j, e)
    ELSE 0

\* the positions after (\+?\d{1,3}[-.\s]?)? started at i, in the order the
\* backtracking matcher tries them: three digits before two before one, with the
\* separator before without it, and the group left out last
PhonePrefixEnds(s, i) ==
    LET q == IF CharAt(s, i, "+") THEN i + 1 ELSE i
        Opt(n) == IF ~DigitsAt(s, q, n) THEN <<>>
                  ELSE (IF InAt(s, q + n, PhoneSeparators) THEN <<q + n + 1>> ELSE <<>>)
                       \o <<q + n>>
    IN  Opt(3) \o Opt(2) \o Opt(1) \o <<i>>

\* the first of the positions ends behind which the body matches: the position
\* after the match, or 0
PhoneFirstAt(s, ends) ==
    IF \A k \in 1..Len(ends) : PhoneBodyAt(s, ends[k]) = 0 THEN 0
    ELSE PhoneBodyAt(s, ends[CHOOSE k \in 1..Len(ends) :
                                /\ PhoneBodyAt(s, ends[k]) # 0
                                /\ \A m \in 1..(k - 1) : PhoneBodyAt(s, ends[m]) = 0])

\* the phone pattern tried at position i: the position after the match, or 0.
\* The first way of taking the optional prefix that lets the body match wins.
PhoneAt(s, i) ==
    The({PhoneFirstAt(s, ends) : ends \in {PhonePrefixEnds(s, i)}})

\* the first position at which the email pattern matches
FirstEmailAt(s) ==
    CHOOSE x \in 1..Len(s) :
        EmailAt(s, x) # 0 /\ \A y \in 1..(x - 1) : EmailAt(s, y) = 0

\* re.search(email_pattern, s).group(): the leftmost match, or None
SearchEmail(s) ==
    IF \A i \in 1..Len(s) : EmailAt(s, i) = 0 THEN None
    ELSE The({SubSeq(s, i, EmailAt(s, i) - 1) : i \in {FirstEmailAt(s)}})

\* the first position at which the phone pattern matches
FirstPhoneAt(s) ==
    CHOOSE x \in 1..Len(s) :
        PhoneAt(s, x) # 0 /\ \A y \in 1..(x - 1) : PhoneAt(s, y) = 0

\* re.search(phone_pattern, s).group(): the leftmost match, or None
SearchPhone(s) ==
    IF \A i \in 1..Len(s) : PhoneAt(s, i) = 0 THEN None
    ELSE The({SubSeq(s, i, PhoneAt(s, i) - 1) : i \in {FirstPhoneAt(s)}})

(***************************************************************************)
(* nltk.sent_tokenize.  The tokenizer ends a sentence at ".", "!" or "?"   *)
(* followed by whitespace and a next token, drops the whitespace between   *)
(* two sentences and behind the last one, and returns no empty sentence.   *)
(* Its trained exceptions (abbreviations, initials, a number followed by a *)
(* lower-case word) are outside the texts used here.                       *)
(***************************************************************************)
SentenceEnders == {".", "!", "?"}

\* the positions of the enders that end a sentence inside s
SentenceBreaks(s) ==
    {k \in 1..Len(s) :
        /\ s[k] \in SentenceEnders
        /\ InAt(s, k + 1, Whitespace)
        /\ SkipWs(s, k + 1) <= Len(s)}

\* the sentences: from the first token behind a break to the next break, the
\* last one to the last character that is not whitespace
sent_tokenize(s) ==
    IF \A k \in 1..Len(s) : IsSpace(s[k]) THEN <<>>
    ELSE The({[r \in 1..(Len(cuts) + 1) |->
                  SubSeq(s,
                         IF r = 1 THEN 1 ELSE SkipWs(s, cuts[r - 1] + 1),
                         IF r <= Len(cuts) THEN cuts[r]
                         ELSE CHOOSE k \in 1..Len(s) :
                                  /\ ~IsSpace(s[k])
                                  /\ \A m \in (k + 1)..Len(s) : IsSpace(s[m]))]
              : cuts \in {Sorted(SentenceBreaks(s))}})

(***************************************************************************)
(* ResumeParser: the vocabularies set by __init__.                         *)
(***************************************************************************)
TechSkills == <<
    <<"p","y","t","h","o","n">>, <<"j","a","v","a">>, <<"j","a","v","a","s","c","r","i","p","t">>, <<"r","e","a","c","t">>, <<"n","o","d","e",".","j","s">>,
    <<"s","q","l">>, <<"m","o","n","g","o","d","b">>, <<"p","o","s","t","g","r","e","s","q","l">>, <<"m","y","s","q","l">>, <<"h","t","m","l">>,
    <<"c","s","s">>, <<"g","i","t">>, <<"d","o","c","k","e","r">>, <<"k","u","b","e","r","n","e","t","e","s">>, <<"a","w","s">>,
    <<"a","z","u","r","e">>, <<"m","a","c","h","i","n","e"," ","l","e","a","r","n","i","n","g">>, <<"d","e","e","p"," ","l","e","a","r","n","i","n","g">>, <<"t","e","n","s","o","r","f","l","o","w">>,
    <<"p","y","t","o","r","c","h">>, <<"s","c","i","k","i","t","-","l","e","a","r","n">>, <<"p","a","n","d","a","s">>, <<"n","u","m","p","y">>, <<"f","a","s","t","a","p","i">>,
    <<"d","j","a","n","g","o">>, <<"f","l","a","s","k">>, <<"s","p","r","i","n","g"," ","b","o","o","t">>, <<"m","i","c","r","o","s","e","r","v","i","c","e","s">>,
    <<"r","e","s","t"," ","a","p","i">>, <<"g","r","a","p","h","q","l">> >>

EducationKeywords == <<
    <<"b","a","c","h","e","l","o","r">>, <<"m","a","s","t","e","r">>, <<"p","h","d">>, <<"d","e","g","r","e","e">>, <<"u","n","i","v","e","r","s","i","t","y">>,
    <<"c","o","l","l","e","g","e">>, <<"e","d","u","c","a","t","i","o","n">>, <<"g","r","a","d","u","a","t","i","o","n">>, <<"b",".","t","e","c","h">>,
    <<"m",".","t","e","c","h">>, <<"m","b","a">>, <<"b",".","s","c">>, <<"m",".","s","c">> >>

\* the calls of parse_resume the model follows
Calls == {"a", "b"}

\* the number of lines extract_contact_info looks at for a name
NameLines == 5

\* the most words a name line may have
MaxNameWords == 4

\* the end year calculate_experience_years falls back to
FallbackYear == 2024

\* the largest string-hash seed of a process the model draws
MaxSeed == 2

Seeds == 0..MaxSeed

NameStopWords == <<<<"r","e","s","u","m","e">>, <<"c","v">>, <<"c","u","r","r","i","c","u","l","u","m">>>>

Min(a, b) == IF a <= b THEN a ELSE b

Range(f) == {f[k] : k \in DOMAIN f}

\* d[k] = v on a Python dict
DictSet(d, k, v) == (k :> v) @@ d

(***************************************************************************)
(* extract_contact_info                                                    *)
(***************************************************************************)
\* a dict that starts without its email and phone keys
NameOnlyContactInfo == [name |-> None]

\* the dict extract_contact_info starts from
NewContactInfo == [name |-> None, email |-> None, phone |-> None]

\* the test of the name loop without its check for resume, cv, curriculum
AcceptNameNoStopWords(line) ==
    /\ line # <<>>
    /\ Len(SplitWs(line)) <= MaxNameWords
    /\ ~\E k \in 1..Len(line) : IsDigit(line[k])
    /\ ~Contains(line, <<"@">>)

\* the test of the name loop on a stripped line
AcceptName(line) ==
    /\ line # <<>>
    /\ Len(SplitWs(line)) <= MaxNameWords
    /\ ~\E k \in 1..Len(line) : IsDigit(line[k])
    /\ ~Contains(line, <<"@">>)
    /\ ~\E k \in 1..Len(NameStopWords) : Contains(Lower(line), NameStopWords[k])

\* the email and phone searches, each assigned only on a match
ExtractEmailPhone(p) ==
    /\ pc[p] = "contact"
    /\ LET email == SearchEmail(text[p])
           phone == SearchPhone(text[p])
           c1 == IF email # None THEN DictSet(NewContactInfo, "email", email)
                 ELSE NewContactInfo
           c2 == IF phone # None THEN DictSet(c1, "phone", phone) ELSE c1
       IN  contact_info' = [contact_info EXCEPT ![p] = c2]
    /\ idx' = [idx EXCEPT ![p] = 1]
    /\ pc' = [pc EXCEPT ![p] = "name"]
    /\ UNCHANGED <<tech_skills, education_keywords, hash_seed, text, pat,
                   found_skills, skills, sentences, experience, education,
                   total_years, parsed_data>>

\* one iteration of "for line in lines[:5]", or the end of the loop
NameStep(p) ==
    /\ pc[p] = "name"
    /\ IF idx[p] > Min(NameLines, Len(Split(text[p], "\n")))
       THEN /\ pc' = [pc EXCEPT ![p] = "skills"]
            /\ idx' = [idx EXCEPT ![p] = 1]
            /\ found_skills' = [found_skills EXCEPT ![p] = <<>>]
            /\ UNCHANGED contact_info
       ELSE \E line \in {Strip(Split(text[p], "\n")[idx[p]])} :
                IF AcceptName(line)
                THEN /\ contact_info' =
                            [contact_info EXCEPT ![p] = DictSet(@, "name", line)]
                     /\ pc' = [pc EXCEPT ![p] = "skills"]
                     /\ idx' = [idx EXCEPT ![p] = 1]
                     /\ found_skills' = [found_skills EXCEPT ![p] = <<>>]
                ELSE /\ idx' = [idx EXCEPT ![p] = @ + 1]
                     /\ UNCHANGED <<pc, contact_info, found_skills>>
    /\ UNCHANGED <<tech_skills, education_keywords, hash_seed, text, pat,
                   skills, sentences, experience, education, total_years,
                   parsed_data>>

(***************************************************************************)
(* extract_skills                                                          *)
(***************************************************************************)
\* the place of a skill in the iteration order of a set of strings, in a
\* process whose string-hash seed is seed
HashRank(skill, seed) ==
    LET k == CHOOSE n \in 1..Len(TechSkills) : TechSkills[n] = skill
    IN  (k * ((29 * seed + 1) % 31)) % 31

\* list(set(...)) of strings: the order is that of the hashes
SetOrder(S, seed) ==
    [r \in 1..Cardinality(S) |->
        CHOOSE s \in S :
            Cardinality({t \in S : HashRank(t, seed) < HashRank(s, seed)}) = r - 1]

\* the match without lower-casing the text
SkillMatchesCaseSensitive(t, skill) == Contains(t, skill)

\* skill.lower() in text_lower
SkillMatches(t, skill) == Contains(Lower(t), Lower(skill))

\* the loop written so that it takes each skill off the shared list
SkillsStepPopping(p) ==
    /\ pc[p] = "skills"
    /\ IF tech_skills # <<>>
       THEN LET skill == Head(tech_skills)
            IN  /\ found_skills' =
                       [found_skills EXCEPT ![p] =
                           IF SkillMatches(text[p], skill)
                           THEN Append(@, skill) ELSE @]
                /\ tech_skills' = Tail(tech_skills)
                /\ UNCHANGED <<pc, skills>>
       ELSE /\ skills' = [skills EXCEPT ![p] =
                             SetOrder(Range(found_skills[p]), hash_seed[p])]
            /\ pc' = [pc EXCEPT ![p] = "experience"]
            /\ UNCHANGED <<tech_skills, found_skills>>
    /\ UNCHANGED <<education_keywords, hash_seed, text, idx, pat,
                   contact_info, sentences, experience, education,
                   total_years, parsed_data>>

\* one iteration of "for skill in self.tech_skills", or the return
SkillsStep(p) ==
    /\ pc[p] = "skills"
    /\ IF idx[p] <= Len(tech_skills)
       THEN LET skill == tech_skills[idx[p]]
            IN  /\ found_skills' =
                       [found_skills EXCEPT ![p] =
                           IF SkillMatches(text[p], skill)
                           THEN Append(@, skill) ELSE @]
                /\ idx' = [idx EXCEPT ![p] = @ + 1]
                /\ UNCHANGED <<pc, skills>>
       ELSE /\ skills' = [skills EXCEPT ![p] =
                             SetOrder(Range(found_skills[p]), hash_seed[p])]
            /\ pc' = [pc EXCEPT ![p] = "experience"]
            /\ UNCHANGED <<idx, found_skills>>
    /\ UNCHANGED <<tech_skills, education_keywords, hash_seed, text, pat,
                   contact_info, sentences, experience, education,
                   total_years, parsed_data>>

(***************************************************************************)
(* extract_experience                                                      *)
(***************************************************************************)
\* the entry appended for one match in one sentence
ExperienceEntry(m, sentence) ==
    [period |-> m.g1 \o <<" ","-"," ">> \o m.g2, description |-> Strip(sentence)]

\* the entry of the first match only, as re.search would give
PatternEntriesFirst(pattern, sentence) ==
    The({IF ms = <<>> THEN <<>> ELSE <<ExperienceEntry(ms[1], sentence)>>
         : ms \in {FindAll(pattern, sentence)}})

\* the entries of all matches of one pattern in one sentence, in match order
PatternEntries(pattern, sentence) ==
    The({[k \in 1..Len(ms) |-> ExperienceEntry(ms[k], sentence)]
         : ms \in {FindAll(pattern, sentence)}})

\* experience = [] and sentences = sent_tokenize(text)
ExperienceStart(p) ==
    /\ pc[p] = "experience"
    /\ sentences' = [sentences EXCEPT ![p] = sent_tokenize(text[p])]
    /\ experience' = [experience EXCEPT ![p] = <<>>]
    /\ idx' = [idx EXCEPT ![p] = 1]
    /\ pat' = [pat EXCEPT ![p] = 1]
    /\ pc' = [pc EXCEPT ![p] = "exp_loop"]
    /\ UNCHANGED <<tech_skills, education_keywords, hash_seed, text,
                   contact_info, found_skills, skills, education, total_years,
                   parsed_data>>

\* one iteration of "for pattern in experience_patterns" inside
\* "for sentence in sentences", or the return
ExperienceStep(p) ==
    /\ pc[p] = "exp_loop"
    /\ IF idx[p] <= Len(sentences[p])
       THEN /\ experience' =
                   [experience EXCEPT ![p] =
                       @ \o PatternEntries(experience_patterns[pat[p]],
                                           sentences[p][idx[p]])]
            /\ IF pat[p] < Len(experience_patterns)
               THEN /\ pat' = [pat EXCEPT ![p] = @ + 1]
                    /\ UNCHANGED idx
               ELSE /\ pat' = [pat EXCEPT ![p] = 1]
                    /\ idx' = [idx EXCEPT ![p] = @ + 1]
            /\ UNCHANGED <<pc, education>>
       ELSE /\ pc' = [pc EXCEPT ![p] = "education"]
            /\ idx' = [idx EXCEPT ![p] = 1]
            /\ education' = [education EXCEPT ![p] = <<>>]
            /\ UNCHANGED <<pat, experience>>
    /\ UNCHANGED <<tech_skills, education_keywords, hash_seed, text,
                   contact_info, found_skills, skills, sentences, total_years,
                   parsed_data>>

(***************************************************************************)
(* extract_education                                                       *)
(***************************************************************************)
\* any(keyword in sentence_lower for keyword in keywords)
HasKeyword(sentence, keywords) ==
    \E sentence_lower \in {Lower(sentence)} :
        \E k \in 1..Len(keywords) : Contains(sentence_lower, keywords[k])

\* one iteration of "for sentence in sentences", or the return
EducationStep(p) ==
    /\ pc[p] = "education"
    /\ IF idx[p] <= Len(sent_tokenize(text[p]))
       THEN /\ \E sentence \in {sent_tokenize(text[p])[idx[p]]} :
                   education' =
                       [education EXCEPT ![p] =
                           IF HasKeyword(sentence, education_keywords)
                           THEN Append(@, [description |-> Strip(sentence)])
                           ELSE @]
            /\ idx' = [idx EXCEPT ![p] = @ + 1]
            /\ UNCHANGED <<pc, total_years>>
       ELSE /\ pc' = [pc EXCEPT ![p] = "years"]
            /\ idx' = [idx EXCEPT ![p] = 1]
            /\ total_years' = [total_years EXCEPT ![p] = 0]
            /\ UNCHANGED education
    /\ UNCHANGED <<tech_skills, education_keywords, hash_seed, text, pat,
                   contact_info, found_skills, skills, sentences, experience,
                   parsed_data>>

(***************************************************************************)
(* calculate_experience_years                                              *)
(***************************************************************************)
\* exp.get('period', '')
GetPeriod(exp) == IF "period" \in DOMAIN exp THEN exp.period ELSE <<>>

\* the contribution of an entry with a negative difference clamped to zero
YearsOfEntryClamped(exp) ==
    The({IF Len(years) >= 2 /\ ToInt(years[2]) >= ToInt(years[1])
         THEN ToInt(years[2]) - ToInt(years[1])
         ELSE 0
         : years \in {FindYears(GetPeriod(exp))}})

\* what one entry adds to total_years
YearsOfEntry(exp) ==
    The({IF Len(years) >= 2
         THEN LET start_year == ToInt(years[1])
                  end_year == IF IsDigitStr(years[2]) THEN ToInt(years[2])
                              ELSE FallbackYear
              IN  end_year - start_year
         ELSE 0
         : years \in {FindYears(GetPeriod(exp))}})

\* one iteration of "for exp in experience", or the return
YearsStep(p) ==
    /\ pc[p] = "years"
    /\ IF idx[p] <= Len(experience[p])
       THEN /\ total_years' =
                   [total_years EXCEPT ![p] = @ + YearsOfEntry(experience[p][idx[p]])]
            /\ idx' = [idx EXCEPT ![p] = @ + 1]
            /\ UNCHANGED pc
       ELSE /\ pc' = [pc EXCEPT ![p] = "return"]
            /\ UNCHANGED <<idx, total_years>>
    /\ UNCHANGED <<tech_skills, education_keywords, hash_seed, text, pat,
                   contact_info, found_skills, skills, sentences, experience,
                   education, parsed_data>>

(***************************************************************************)
(* parse_resume                                                            *)
(***************************************************************************)
\* the dict parse_resume returns
Return(p) ==
    /\ pc[p] = "return"
    /\ parsed_data' =
           [parsed_data EXCEPT ![p] =
               [contact_info |-> contact_info[p],
                skills |-> skills[p],
                experience |-> experience[p],
                education |-> education[p],
                experience_years |-> total_years[p]]]
    /\ pc' = [pc EXCEPT ![p] = "done"]
    /\ UNCHANGED <<tech_skills, education_keywords, hash_seed, text, idx, pat,
                   contact_info, found_skills, skills, sentences, experience,
                   education, total_years>>

\* a step of a running call of parse_resume
ParseStep(p) ==
    \/ ExtractEmailPhone(p)
    \/ NameStep(p)
    \/ SkillsStep(p)
    \/ ExperienceStart(p)
    \/ ExperienceStep(p)
    \/ EducationStep(p)
    \/ YearsStep(p)
    \/ Return(p)

(***************************************************************************)
(* FileProcessor.process_file and the upload_resume handler.  A file is a  *)
(* filename and a content: whether the decoder can read it, and the texts  *)
(* of its units (the pages of a PDF, the paragraphs of a DOCX, the decoded *)
(* bytes of a TXT).                                                        *)
(***************************************************************************)
allowed_extensions == <<<<"p","d","f">>, <<"d","o","c","x">>, <<"t","x","t">>>>

\* filename.lower().split('.')[-1]
FileExtension(filename) ==
    LET parts == Split(Lower(filename), ".") IN parts[Len(parts)]

\* the text of a readable file: each page or paragraph followed by "\n"
DecodedText(file) ==
    IF FileExtension(file.filename) = <<"t","x","t">> THEN Concat(file.content.units)
    ELSE Concat([k \in 1..Len(file.content.units) |->
                    file.content.units[k] \o <<"\n">>])

\* the message of the ValueError an unreadable file of each format raises; the
\* decoder's own message, which follows it, is left out
DecoderError(ext) ==
    IF ext = <<"p","d","f">> THEN "Error processing PDF: "
    ELSE IF ext = <<"d","o","c","x">> THEN "Error processing DOCX: "
    ELSE "Error processing TXT: "

\* FileProcessor.process_file: the text, or the ValueError it raises
process_file(file) ==
    IF FileExtension(file.filename) \notin Range(allowed_extensions)
    THEN [raised |-> TRUE, exc |-> [type |-> "ValueError",
                                    str |-> "Unsupported file format"]]
    ELSE IF ~file.content.readable
    THEN [raised |-> TRUE,
          exc |-> [type |-> "ValueError",
                   str |-> DecoderError(FileExtension(file.filename))]]
    ELSE [raised |-> FALSE, text |-> DecodedText(file)]

NoResponse == [status |-> 0]

NoException == [type |-> "none"]

\* the call of parse_resume that upload_resume makes
UploadCall == "a"

\* the most upload requests the model follows
MaxRequests == 2

SampleResume == <<"A","l"," ","R","o","e","\n","a","l","@","x",".","i","o","\n","p","y","t","h","o","n"," ","2","0","1","8","-","2","0","2","2">>

UploadFilenames ==
    {<<"c","v",".","t","x","t">>, <<"C","V",".","T","X","T">>, <<"a",".","p","d","f">>, <<"b",".","d","o","c","x">>, <<"r","u","n",".","e","x","e">>,
     <<"n","o","t","e","s">>}

UploadContents ==
    {[readable |-> FALSE, units |-> <<>>],
     [readable |-> TRUE, units |-> <<>>],
     [readable |-> TRUE, units |-> <<<<" ","\t">>>>],
     [readable |-> TRUE, units |-> <<SampleResume>>]}

UploadFiles == [filename : UploadFilenames, content : UploadContents]

\* a request arrives with its file
StartRequest ==
    /\ up_pc = "idle"
    /\ requests < MaxRequests
    /\ \E f \in UploadFiles : up_file' = f
    /\ requests' = requests + 1
    /\ up_pc' = "validate"
    /\ up_text' = <<>>
    /\ up_exc' = NoException
    /\ up_response' = NoResponse
    /\ UNCHANGED <<parser_calls, db>>
    /\ UNCHANGED parse_vars

\* the extension check, before the try block
ValidateExtension ==
    /\ up_pc = "validate"
    /\ IF FileExtension(up_file.filename) \notin Range(allowed_extensions)
       THEN /\ up_response' = [status |-> 400,
                               detail |-> <<"File type not supported. Allowed types: ",
                                           Join(<<","," ">>, allowed_extensions)>>]
            /\ up_pc' = "responded"
       ELSE /\ up_pc' = "process"
            /\ UNCHANGED up_response
    /\ UNCHANGED <<up_file, up_text, up_exc, parser_calls, db, requests>>
    /\ UNCHANGED parse_vars

\* file.read() and FileProcessor.process_file, inside the try block
ProcessFile ==
    /\ up_pc = "process"
    /\ LET r == process_file(up_file)
       IN  IF r.raised
           THEN /\ up_exc' = r.exc
                /\ up_pc' = "except"
                /\ UNCHANGED up_text
           ELSE /\ up_text' = r.text
                /\ up_pc' = "check"
                /\ UNCHANGED up_exc
    /\ UNCHANGED <<up_file, up_response, parser_calls, db, requests>>
    /\ UNCHANGED parse_vars

\* "if not text.strip(): raise HTTPException(400, ...)", inside the try block;
\* otherwise the call parser.parse_resume(text)
CheckText ==
    /\ up_pc = "check"
    /\ IF Strip(up_text) = <<>>
       THEN /\ up_exc' = [type |-> "HTTPException", status_code |-> 400,
                          detail |-> <<"No text found in the uploaded file">>,
                          str |-> "400: No text found in the uploaded file"]
            /\ up_pc' = "except"
            /\ UNCHANGED <<parser_calls, text, pc>>
       ELSE /\ up_pc' = "parse"
            /\ parser_calls' = parser_calls + 1
            /\ text' = [text EXCEPT ![UploadCall] = up_text]
            /\ pc' = [pc EXCEPT ![UploadCall] = "contact"]
            /\ UNCHANGED up_exc
    /\ UNCHANGED <<up_file, up_text, up_response, db, requests>>
    /\ UNCHANGED <<tech_skills, education_keywords, hash_seed, idx, pat,
                   contact_info, found_skills, skills, sentences, experience,
                   education, total_years, parsed_data>>

\* the running parse_resume call of the handler
UploadParse ==
    /\ up_pc = "parse"
    /\ ParseStep(UploadCall)
    /\ UNCHANGED upload_vars

\* the Resume row built from the parsed data
ResumeRow(id, file, original_text, data) ==
    [id |-> id,
     filename |-> file.filename,
     original_text |-> original_text,
     parsed_data |-> data,
     name |-> data.contact_info.name,
     email |-> data.contact_info.email,
     phone |-> data.contact_info.phone,
     skills |-> IF data.skills # <<>> THEN Join(<<","," ">>, data.skills) ELSE None,
     experience_years |-> data.experience_years]

\* db.add, db.commit, db.refresh and the ResumeResponse
SaveResume ==
    /\ up_pc = "parse"
    /\ pc[UploadCall] = "done"
    /\ LET row == ResumeRow(Len(db) + 1, up_file, up_text, parsed_data[UploadCall])
       IN  /\ db' = Append(db, row)
           /\ up_response' = [status |-> 200,
                              message |-> "Resume uploaded and parsed successfully",
                              resume_id |-> row.id,
                              parsed_data |-> parsed_data[UploadCall]]
    /\ up_pc' = "responded"
    /\ pc' = [pc EXCEPT ![UploadCall] = "idle"]
    /\ UNCHANGED <<up_file, up_text, up_exc, parser_calls, requests>>
    /\ UNCHANGED <<tech_skills, education_keywords, hash_seed, text, idx, pat,
                   contact_info, found_skills, skills, sentences, experience,
                   education, total_years, parsed_data>>

\* "except Exception as e: raise HTTPException(500, ...)": every exception
\* raised inside the try block lands here, an HTTPException included
HandleException ==
    /\ up_pc = "except"
    /\ up_response' = [status |-> 500,
                       detail |-> <<"Error processing file: ", up_exc.str>>]
    /\ up_pc' = "responded"
    /\ UNCHANGED <<up_file, up_text, up_exc, parser_calls, db, requests>>
    /\ UNCHANGED parse_vars

\* the response is sent; the handler is ready for the next request
FinishRequest ==
    /\ up_pc = "responded"
    /\ up_pc' = "idle"
    /\ UNCHANGED <<up_file, up_text, up_exc, up_response, parser_calls, db,
                   requests>>
    /\ UNCHANGED parse_vars

(***************************************************************************)
(* The results the claims state, as functions of the input.                 *)
(***************************************************************************)
\* the number of words of a line: the positions where a word starts
WordCount(line) ==
    Cardinality({k \in 1..Len(line) :
                    ~IsSpace(line[k]) /\ (k = 1 \/ IsSpace(line[k - 1]))})

\* the acceptance rule of the name heuristic on a trimmed line
NameLineAccepted(line) ==
    /\ Len(line) > 0
    /\ WordCount(line) <= 4
    /\ Range(line) \cap Digits = {}
    /\ "@" \notin Range(line)
    /\ \A w \in {<<"r","e","s","u","m","e">>, <<"c","v">>, <<"c","u","r","r","i","c","u","l","u","m">>} :
           \A k \in 1..Len(line) :
               k + Len(w) - 1 > Len(line)
               \/ Lower(SubSeq(line, k, k + Len(w) - 1)) # w

\* the name of a text: its first accepted line among the first five
NameOf(t) ==
    LET lines == Split(t, "\n")
        ok == {k \in 1..Len(lines) : k <= 5 /\ NameLineAccepted(Strip(lines[k]))}
    IN  IF ok = {} THEN None
        ELSE Strip(lines[CHOOSE k \in ok : \A m \in ok : k <= m])

\* the vocabulary entries that occur in the lower-cased text
SkillsOf(t) ==
    {v \in Range(TechSkills) : Contains(Lower(t), v)}

\* the entries of one sentence: year-year matches before month/year matches
SentenceEntries(sentence) ==
    LET ms == FindAll("year_range", sentence) \o FindAll("month_range", sentence)
    IN  [k \in 1..Len(ms) |->
            [period |-> ms[k].g1 \o <<" ", "-", " ">> \o ms[k].g2,
             description |-> Strip(sentence)]]

\* the experience entries of a text, sentence by sentence
ExperienceOf(t) ==
    LET sents == sent_tokenize(t)
    IN  Concat([k \in 1..Len(sents) |-> SentenceEntries(sents[k])])

RECURSIVE EducationOfSentences(_)
EducationOfSentences(sents) ==
    IF sents = <<>> THEN <<>>
    ELSE (IF \E w \in Range(EducationKeywords) : Contains(Lower(Head(sents)), w)
          THEN <<[description |-> Strip(Head(sents))]>> ELSE <<>>)
         \o EducationOfSentences(Tail(sents))

\* the education entries of a text
EducationOf(t) == EducationOfSentences(sent_tokenize(t))

\* the start of the run of digits that position i of s lies in
DigitRunStart(s, i) ==
    CHOOSE j \in 1..i :
        /\ \A k \in j..i : IsDigit(s[k])
        /\ (j = 1 \/ ~IsDigit(s[j - 1]))

\* where the 4-digit years of a period start: every fourth digit of a run of
\* digits, as long as four digits are left
YearStarts(s) ==
    {i \in 1..(Len(s) - 3) :
        DigitsAt(s, i, 4) /\ (i - DigitRunStart(s, i)) % 4 = 0}

\* second year minus first year of a period, 0 when it has fewer than two years
PeriodYears(period) ==
    LET st == YearStarts(period)
    IN  IF Cardinality(st) < 2 THEN 0
        ELSE LET first == CHOOSE i \in st : \A j \in st : i <= j
                 second == CHOOSE i \in st \ {first} : \A j \in st \ {first} : i <= j
             IN  ToInt(SubSeq(period, second, second + 3))
                 - ToInt(SubSeq(period, first, first + 3))

RECURSIVE SumOfYears(_)
\* the sum of PeriodYears over the period fields of the entries
SumOfYears(entries) ==
    IF entries = <<>> THEN 0
    ELSE (IF "period" \in DOMAIN Head(entries)
          THEN PeriodYears(Head(entries).period) ELSE 0)
         + SumOfYears(Tail(entries))

\* the record parse_resume returns for a text when it runs alone in a process
\* with the given string-hash seed
ParseAlone(t, seed) ==
    [contact_info |-> [name |-> NameOf(t), email |-> SearchEmail(t),
                       phone |-> SearchPhone(t)],
     skills |-> SetOrder(SkillsOf(t), seed),
     experience |-> ExperienceOf(t),
     education |-> EducationOf(t),
     experience_years |-> SumOfYears(ExperienceOf(t))]

NoDuplicates(s) == \A i, j \in 1..Len(s) : s[i] = s[j] => i = j

(***************************************************************************)
(* Inputs.                                                                 *)
(***************************************************************************)
\* all sequences of length at most n over S
SeqsUpTo(S, n) == UNION {[1..k -> S] : k \in 0..n}

\* the most experience entries of one call of calculate_experience_years
MaxEntries == 3

\* the most lines of a text given to extract_contact_info
MaxLines == 6

\* the most fragments of a text given to extract_skills
MaxSkillFrags == 3

\* the most fragments of a text given to extract_experience
MaxExpFrags == 4

\* texts whose experience entries calculate_experience_years is given
AggTexts ==
    {<<"D","e","v"," ","2","0","1","8"," ","-"," ","2","0","2","2","."," ","O","p","s"," ","2","0","2","0","-","P","r","e","s","e","n","t">>,
     <<"F","r","o","m"," ","2","0","2","2"," ","-"," ","2","0","1","8",","," ","1","/","2","0","2","0"," ","-"," ","1","2","/","2","0","2","1"," ","a","n","d"," ","3","/","2","0","1","9"," ","-"," ","c","u","r","r","e","n","t">>}

\* entries as extract_experience returns them, and entries of other callers
AggEntries ==
    UNION {Range(ExperienceOf(t)) : t \in AggTexts}
    \cup {[period |-> <<"2","0","1","8"," ","-"," ","2","0","2","2">>, description |-> <<"o","t","h","e","r">>],
          [period |-> <<"2","0","1","8","2","0","1","9">>, description |-> <<>>],
          [period |-> <<"1","2","0","2","0"," ","t","o"," ","2","0","2","2"," ","o","r"," ","2","0","3","0">>, description |-> <<>>],
          [period |-> <<>>, description |-> <<>>],
          [description |-> <<"n","o"," ","p","e","r","i","o","d">>]}

AggInputs == SeqsUpTo(AggEntries, MaxEntries)

\* lines of every kind the name heuristic tells apart
RichLines ==
    {<<" ","A","l"," ","R","o","e","\t">>, <<"J","o"," ","P","o","e">>, <<>>, <<"M","y"," ","C","V">>, <<"C","U","R","R","I","C","U","L","U","M"," ","V","I","T","A","E">>,
     <<"a"," ","b"," ","c"," ","d"," ","e">>, <<"j","@","x",".","i","o">>, <<"T","e","l"," ","5","5","5">>}

PlainLines == {<<"J","o"," ","P","o","e">>, <<" "," ">>, <<"T","e","l"," ","5","5","5">>}

\* the first two lines are rich, the later ones plain
NameLineSeqs ==
    UNION {{r \o q : r \in [1..Min(n, 2) -> RichLines],
                     q \in [1..(n - Min(n, 2)) -> PlainLines]} : n \in 0..MaxLines}

NameTexts == {Join(<<"\n">>, ls) : ls \in NameLineSeqs}

SkillFrags ==
    {<<"P","y","t","h","o","n">>, <<"p","y","t","h","o","n">>, <<" ">>, <<"G","i","t","h","u","b">>, <<"J","A","V","A","s","c","r","i","p","t">>,
     <<"S","Q","L",","," ">>}

SkillTexts == {Concat(fs) : fs \in SeqsUpTo(SkillFrags, MaxSkillFrags)}

ExpFrags ==
    {<<"2","0","1","8","-","2","0","2","2">>, <<" ","1","/","2","0","2","0"," ","-"," ","P","r","e","s","e","n","t">>, <<"."," ","L","e","d"," ">>, <<"D","e","v"," ">>,
     <<"3","/","2","0","1","9"," ","EN-DASH"," ","1","2","/","2","0","2","0">>}

ExpTexts == {Concat(fs) : fs \in SeqsUpTo(ExpFrags, MaxExpFrags)}

ParseTexts ==
    {<<>>,
     <<" ","\n","\t">>,
     <<"C","U","R","R","I","C","U","L","U","M"," ","V","I","T","A","E","\n"," ","A","l"," ","R","o","e"," ","\n","a","l",".","r","o","e","@","x",".","i","o","\n","(","4","1","5",")"," ","5","5","5","-","2","6","7","1","\n","P","y","t","h","o","n"," ","a","n","d"," ","p","y","t","h","o","n",","," ","J","a","v","a","."," ","D","e","v"," ","2","0","1","8","-","2","0","2","2","."," ","M","a","s","t","e","r"," ","d","e","g","r","e","e"," ","1","/","2","0","2","0"," ","-"," ","p","r","e","s","e","n","t",".">>,
     <<"J","o"," ","P","o","e","\n","r","e","a","c","t"," ","2","0","2","2"," ","-"," ","2","0","1","8">>,
     <<"R","e","s","u","m","e"," ","o","f"," ","2","0","2","4","\n","s","q","l","!"," ","C","o","l","l","e","g","e">>}

(***************************************************************************)
(* Specifications.                                                         *)
(***************************************************************************)
NoData == [none |-> TRUE]

NoFile == [filename |-> <<>>, content |-> [readable |-> FALSE, units |-> <<>>]]

\* a parser just constructed; the calls in active are at position start
InitParser(start, active) ==
    /\ tech_skills = TechSkills
    /\ education_keywords = EducationKeywords
    /\ pc = [p \in Calls |-> IF p \in active THEN start ELSE "idle"]
    /\ idx = [p \in Calls |-> 1]
    /\ pat = [p \in Calls |-> 1]
    /\ contact_info = [p \in Calls |-> NewContactInfo]
    /\ found_skills = [p \in Calls |-> <<>>]
    /\ skills = [p \in Calls |-> <<>>]
    /\ sentences = [p \in Calls |-> <<>>]
    /\ education = [p \in Calls |-> <<>>]
    /\ total_years = [p \in Calls |-> 0]
    /\ parsed_data = [p \in Calls |-> NoData]

\* no upload request yet
InitHandler ==
    /\ up_pc = "idle"
    /\ up_file = NoFile
    /\ up_text = <<>>
    /\ up_exc = NoException
    /\ up_response = NoResponse
    /\ parser_calls = 0
    /\ db = <<>>
    /\ requests = 0

\* calculate_experience_years on a list of entries
InitAgg ==
    /\ InitParser("years", {"a"})
    /\ InitHandler
    /\ text = [p \in Calls |-> <<>>]
    /\ hash_seed = [p \in Calls |-> 0]
    /\ \E es \in AggInputs :
           experience = [p \in Calls |-> IF p = "a" THEN es ELSE <<>>]

NextAgg == YearsStep("a") /\ UNCHANGED upload_vars

SpecAgg == InitAgg /\ [][NextAgg]_vars

\* extract_contact_info on a text
InitName ==
    /\ InitParser("contact", {"a"})
    /\ InitHandler
    /\ \E t \in NameTexts : text = [p \in Calls |-> IF p = "a" THEN t ELSE <<>>]
    /\ hash_seed = [p \in Calls |-> 0]
    /\ experience = [p \in Calls |-> <<>>]

NextName ==
    /\ \/ ExtractEmailPhone("a")
       \/ NameStep("a")
    /\ UNCHANGED upload_vars

SpecName == InitName /\ [][NextName]_vars

\* extract_skills on a text, in a process with any hash seed
InitSkills ==
    /\ InitParser("skills", {"a"})
    /\ InitHandler
    /\ \E t \in SkillTexts : text = [p \in Calls |-> IF p = "a" THEN t ELSE <<>>]
    /\ \E h \in Seeds : hash_seed = [p \in Calls |-> h]
    /\ experience = [p \in Calls |-> <<>>]

NextSkills == SkillsStep("a") /\ UNCHANGED upload_vars

SpecSkills == InitSkills /\ [][NextSkills]_vars

\* extract_experience on a text
InitExp ==
    /\ InitParser("experience", {"a"})
    /\ InitHandler
    /\ \E t \in ExpTexts : text = [p \in Calls |-> IF p = "a" THEN t ELSE <<>>]
    /\ hash_seed = [p \in Calls |-> 0]
    /\ experience = [p \in Calls |-> <<>>]

NextExp ==
    /\ \/ ExperienceStart("a")
       \/ ExperienceStep("a")
    /\ UNCHANGED upload_vars

SpecExp == InitExp /\ [][NextExp]_vars

\* one call of parse_resume; the interpreter keeps running it
InitParse ==
    /\ InitParser("contact", {"a"})
    /\ InitHandler
    /\ \E t \in ParseTexts : text = [p \in Calls |-> IF p = "a" THEN t ELSE <<>>]
    /\ \E h \in Seeds : hash_seed = [p \in Calls |-> h]
    /\ experience = [p \in Calls |-> <<>>]

NextParse == ParseStep("a") /\ UNCHANGED upload_vars

SpecParse == InitParse /\ [][NextParse]_vars /\ WF_vars(NextParse)

\* two calls on the one parser of a process, their steps interleaved
InitConc ==
    /\ InitParser("contact", Calls)
    /\ InitHandler
    /\ text \in [Calls -> ParseTexts]
    /\ \E h \in Seeds : hash_seed = [p \in Calls |-> h]
    /\ experience = [p \in Calls |-> <<>>]

NextConc ==
    /\ \E p \in Calls : ParseStep(p)
    /\ UNCHANGED upload_vars

SpecConc == InitConc /\ [][NextConc]_vars

\* two runs on the same text, one after the other, each in a process of its own
InitRuns ==
    /\ InitParser("contact", Calls)
    /\ InitHandler
    /\ \E t \in ParseTexts : text = [p \in Calls |-> t]
    /\ hash_seed \in [Calls -> Seeds]
    /\ experience = [p \in Calls |-> <<>>]

NextRuns ==
    /\ \/ ParseStep("a")
       \/ pc["a"] = "done" /\ ParseStep("b")
    /\ UNCHANGED upload_vars

SpecRuns == InitRuns /\ [][NextRuns]_vars

\* the upload_resume handler, one request at a time
InitUpload ==
    /\ InitParser("idle", {})
    /\ InitHandler
    /\ text = [p \in Calls |-> <<>>]
    /\ \E h \in Seeds : hash_seed = [p \in Calls |-> h]
    /\ experience = [p \in Calls |-> <<>>]

NextUpload ==
    \/ StartRequest
    \/ ValidateExtension
    \/ ProcessFile
    \/ CheckText
    \/ UploadParse
    \/ SaveResume
    \/ HandleException
    \/ FinishRequest

SpecUpload == InitUpload /\ [][NextUpload]_vars

Init == InitConc

Next == NextConc

Spec == SpecConc

(***************************************************************************)
(* Claims.                                                                 *)
(***************************************************************************)
AggDone == pc["a"] = "return"

\* C1: calculate_experience_years returns a non-negative integer for every
\* list of entries, a period with its years out of order included.
C1_YearsNonNegative == AggDone => total_years["a"] >= 0

\* one entry whose years are out of order gives a negative result
C1_Witness ==
    /\ AggDone
    /\ Len(experience["a"]) = 1
    /\ "period" \in DOMAIN experience["a"][1]
    /\ experience["a"][1].period = <<"2","0","2","2"," ","-"," ","2","0","1","8">>
    /\ total_years["a"] = -4

\* a period "<year> - present" or "<year> - current", in any letter case
OpenEndedPeriod(period) ==
    /\ Len(period) = 14
    /\ DigitsAt(period, 1, 4)
    /\ SubSeq(period, 5, 7) = <<" ", "-", " ">>
    /\ Lower(SubSeq(period, 8, 14)) \in {Present, Current}

\* C2: for a single entry whose period is open-ended, the result is 2024 minus
\* the start year (4 for "2020 - present").
C2_OpenEndedUsesFallback ==
    (/\ AggDone
     /\ Len(experience["a"]) = 1
     /\ "period" \in DOMAIN experience["a"][1]
     /\ OpenEndedPeriod(experience["a"][1].period))
    => total_years["a"] = 2024 - ToInt(SubSeq(experience["a"][1].period, 1, 4))

\* the period "2020 - Present" holds one 4-digit year, so the entry adds zero
C2_Witness ==
    /\ AggDone
    /\ Len(experience["a"]) = 1
    /\ "period" \in DOMAIN experience["a"][1]
    /\ experience["a"][1].period = <<"2","0","2","0"," ","-"," ","P","r","e","s","e","n","t">>
    /\ total_years["a"] = 0

\* C3: the result is the sum, over the entries whose period holds at least two
\* 4-digit years, of the second year minus the first; every other entry, one
\* with no period field included, adds zero; one entry "2018 - 2022" gives 4.
C3_YearsIsSumOfPeriodDifferences ==
    AggDone =>
        /\ total_years["a"] = SumOfYears(experience["a"])
        /\ (/\ Len(experience["a"]) = 1
            /\ "period" \in DOMAIN experience["a"][1]
            /\ experience["a"][1].period = <<"2","0","1","8"," ","-"," ","2","0","2","2">>)
           => total_years["a"] = 4

\* three entries: one with no period field, one with a single year, one with two
C3_Witness ==
    /\ AggDone
    /\ Len(experience["a"]) = 3
    /\ "period" \notin DOMAIN experience["a"][1]
    /\ "period" \in DOMAIN experience["a"][2]
    /\ experience["a"][2].period = <<"2","0","2","0"," ","-"," ","P","r","e","s","e","n","t">>
    /\ "period" \in DOMAIN experience["a"][3]
    /\ experience["a"][3].period = <<"2","0","1","8"," ","-"," ","2","0","2","2">>
    /\ total_years["a"] = 4

BothRunsDone == pc["a"] = "done" /\ pc["b"] = "done"

\* C4: two runs of parse_resume on the same text, in the same or in different
\* processes, return records equal field for field, the order of the skills
\* list included.
C4_RunsReturnEqualRecords ==
    (BothRunsDone /\ text["a"] = text["b"]) => parsed_data["a"] = parsed_data["b"]

\* two runs on one text that differ in the order of the skills list only
C4_Witness ==
    /\ BothRunsDone
    /\ text["a"] = text["b"]
    /\ hash_seed["a"] # hash_seed["b"]
    /\ parsed_data["a"].skills # parsed_data["b"].skills
    /\ Range(parsed_data["a"].skills) = Range(parsed_data["b"].skills)
    /\ [parsed_data["a"] EXCEPT !.skills = <<>>]
           = [parsed_data["b"] EXCEPT !.skills = <<>>]

SkillsDone == pc["a"] = "experience"

\* C5: the list extract_skills returns has no duplicates, and a vocabulary entry
\* is in it exactly when it is a substring of the lower-cased text; a text that
\* mentions Python and python holds "python" once.
C5_SkillsAreTheVocabularyHits ==
    SkillsDone =>
        /\ NoDuplicates(skills["a"])
        /\ \A v \in Range(TechSkills) :
               v \in Range(skills["a"]) <=> Contains(Lower(text["a"]), v)
        /\ Range(skills["a"]) \subseteq Range(TechSkills)
        /\ text["a"] = <<"P","y","t","h","o","n","p","y","t","h","o","n"," ">> => skills["a"] = <<<<"p","y","t","h","o","n">>>>

\* a text that mentions a skill twice in two casings, and "git" inside a word
C5_Witness ==
    /\ SkillsDone
    /\ text["a"] = <<"P","y","t","h","o","n","p","y","t","h","o","n","G","i","t","h","u","b">>
    /\ Range(skills["a"]) = {<<"p","y","t","h","o","n">>, <<"g","i","t">>}
    /\ Len(skills["a"]) = 2

ContactDone == pc["a"] = "skills"

\* C6: name is the trimmed first line, among the first 5 lines, that is
\* non-empty, has at most 4 words, no digit, no "@" and none of resume, cv,
\* curriculum in any case; a rejected line is skipped for the next accepted one;
\* name is null when none of the first 5 lines is accepted, even if a later is.
C6_NameIsFirstAcceptedLine ==
    ContactDone =>
        /\ contact_info["a"].name = NameOf(text["a"])
        /\ text["a"] = <<"C","U","R","R","I","C","U","L","U","M"," ","V","I","T","A","E","\n"," ","A","l"," ","R","o","e","\t">>
               => contact_info["a"].name = <<"A","l"," ","R","o","e">>
        /\ text["a"] = <<"M","y"," ","C","V","\n","T","e","l"," ","5","5","5","\n","T","e","l"," ","5","5","5","\n"," "," ","\n","T","e","l"," ","5","5","5","\n","J","o"," ","P","o","e">>
               => contact_info["a"].name = None

\* the first line is rejected for its keyword and the second, trimmed, is taken
C6_Witness ==
    /\ ContactDone
    /\ Len(text["a"]) > 17
    /\ SubSeq(text["a"], 1, 17) = <<"C","U","R","R","I","C","U","L","U","M"," ","V","I","T","A","E","\n">>
    /\ contact_info["a"].name = <<"A","l"," ","R","o","e">>
    /\ Len(Split(text["a"], "\n")) > 5

ExperienceDone == pc["a"] = "education"

\* the matches of a sentence: all year-year matches, then all month/year ones
DateMatches(sentence) ==
    FindAll("year_range", sentence) \o FindAll("month_range", sentence)

\* C7: extract_experience emits one entry per date-range match, by sentence in
\* text order and within a sentence all year-year matches before all month/year
\* matches; the period is "<group1> - <group2>" and the description the trimmed
\* sentence; a sentence with no match yields no entry.
C7_OneEntryPerMatchInOrder ==
    ExperienceDone =>
        LET sents == sent_tokenize(text["a"])
            counts == [k \in 1..Len(sents) |-> Len(DateMatches(sents[k]))]
            Before(k) == Len(Concat([j \in 1..(k - 1) |-> DateMatches(sents[j])]))
        IN  /\ Len(experience["a"]) = Before(Len(sents) + 1)
            /\ \A k \in 1..Len(sents) : \A n \in 1..counts[k] :
                   LET e == experience["a"][Before(k) + n]
                       m == DateMatches(sents[k])[n]
                   IN  /\ e.period = m.g1 \o <<" ", "-", " ">> \o m.g2
                       /\ e.description = Strip(sents[k])

\* two sentences, the second with a year-year match that comes after a
\* month/year match in the text and before it in the list
C7_Witness ==
    /\ ExperienceDone
    /\ text["a"] = <<"."," ","L","e","d"," ","3","/","2","0","1","9"," ","EN-DASH"," ","1","2","/","2","0","2","0","2","0","1","8","-","2","0","2","2"," ","1","/","2","0","2","0"," ","-"," ","P","r","e","s","e","n","t">>
    /\ Len(sent_tokenize(text["a"])) = 2
    /\ [k \in 1..Len(experience["a"]) |-> experience["a"][k].period]
           = <<<<"2","0","1","8"," ","-"," ","2","0","2","2">>, <<"2","0","2","0"," ","-"," ","P","r","e","s","e","n","t">>,
               <<"3","/","2","0","1","9"," ","-"," ","1","2","/","2","0","2","0">>, <<"1","/","2","0","2","0"," ","-"," ","P","r","e","s","e","n","t">>>>

\* a complete record: all five fields, contact_info with its three keys, lists
\* where lists are due, and nothing found giving null, empty lists and zero
WellFormed(d) ==
    /\ DOMAIN d = {"contact_info", "skills", "experience", "education",
                   "experience_years"}
    /\ DOMAIN d.contact_info = {"name", "email", "phone"}
    /\ \A k \in DOMAIN d.contact_info :
           d.contact_info[k] = None \/ d.contact_info[k] \in Seq(Range(d.contact_info[k]))
    /\ DOMAIN d.skills = 1..Len(d.skills)
    /\ DOMAIN d.experience = 1..Len(d.experience)
    /\ DOMAIN d.education = 1..Len(d.education)
    /\ d.experience_years \in Int
    /\ d.experience = <<>> => d.experience_years = 0

\* C8: for every text parse_resume terminates without raising and returns a
\* complete record of five fields, with null or an empty list (and 0 years)
\* where an extractor finds nothing.
C8_ParseAlwaysReturnsCompleteRecord ==
    /\ [](pc["a"] = "done" => WellFormed(parsed_data["a"]))
    /\ [](pc["a"] \in {"contact", "name", "skills", "experience", "exp_loop",
                       "education", "years", "return", "done"})
    /\ <>(pc["a"] = "done")

\* a text in which no extractor finds anything
C8_Witness ==
    /\ pc["a"] = "done"
    /\ text["a"] = <<" ","\n","\t">>
    /\ parsed_data["a"] =
           [contact_info |-> [name |-> None, email |-> None, phone |-> None],
            skills |-> <<>>, experience |-> <<>>, education |-> <<>>,
            experience_years |-> 0]

\* C9: for any interleaving of concurrent calls on the shared parser, each call
\* returns the record it would return if run alone, and the skills and education
\* vocabularies are left unchanged by every call.
C9_ConcurrentCallsAreIndependent ==
    /\ tech_skills = TechSkills
    /\ education_keywords = EducationKeywords
    /\ \A p \in Calls :
           pc[p] = "done" => parsed_data[p] = ParseAlone(text[p], hash_seed[p])

\* one call has returned a record with skills while the other, on another text,
\* is in the middle of its experience loop
C9_Witness ==
    /\ pc["a"] = "done"
    /\ pc["b"] = "exp_loop"
    /\ idx["b"] > 1
    /\ text["a"] # text["b"]
    /\ Len(parsed_data["a"].skills) >= 2
    /\ experience["b"] # <<>>

\* C10: when the decoded text of a file with an allowed extension is empty or
\* whitespace-only, the parser is not invoked, no row is added, and the request
\* is rejected with the HTTP 400 error "No text found in the uploaded file".
C10_EmptyTextRejectedWith400 ==
    (/\ up_pc = "responded"
     /\ FileExtension(up_file.filename) \in Range(allowed_extensions)
     /\ up_file.content.readable
     /\ Strip(DecodedText(up_file)) = <<>>)
    => /\ up_response.status = 400
       /\ up_response.detail = <<"No text found in the uploaded file">>
       /\ pc[UploadCall] = "idle"
       /\ ~\E k \in 1..Len(db) : db[k].original_text = up_text

\* a whitespace-only text file is answered with status 500: the HTTPException
\* raised inside the try block is caught by "except Exception"
C10_Witness ==
    /\ up_pc = "responded"
    /\ up_text = <<" ","\t">>
    /\ up_response = [status |-> 500,
                      detail |-> <<"Error processing file: ",
                                   "400: No text found in the uploaded file">>]
    /\ pc[UploadCall] = "idle"
    /\ db = <<>>
====
